---------------------------- MODULE Spec2Model ----------------------------
(***************************************************************************)
(* Agent / controller orchestration pair of worldviz/utility-scripts.      *)
(*                                                                         *)
(*   orchestrator/agent.py      the per-host agent: job table, spawn,      *)
(*                              sampling, hang flag, termination, pruner   *)
(*   orchestrator/controller.py the fan-out CLI: the four subcommands,     *)
(*                              exec_and_wait and the exit verdict of main *)
(*                                                                         *)
(* One set of definitions, twelve specifications, each with the part of    *)
(* the environment its properties are about:                               *)
(*   Spec      one agent: /start, /stop, /stop_all, processes ending and   *)
(*             forking                                                     *)
(*   StatSpec  /status over jobs whose processes end and vanish            *)
(*   TimeSpec  the clock: the hang flag and the pruner                     *)
(*   RaceSpec  handler threads and the pruner contending for JOBS_LOCK     *)
(*   FailSpec  /start requests whose spawn fails, under JOBS_LOCK          *)
(*   AuthSpec  the request gate: every kind of Authorization header        *)
(*   KillSpec  tree_kill over a process table with processes that are not  *)
(*             the agent's: unreadable ones and simulator processes        *)
(*   LockSpec  /start, /status and /stop_all taking JOBS_LOCK step by step *)
(*   TableSpec every operation on the job table, one at a time             *)
(*   OrderSpec JOBS_LOCK and the mutex of a _Job, with fair scheduling     *)
(*   CtlSpec   one run of the controller: client c1 is served by the agent *)
(*             of this module, the other client by the answers an agent    *)
(*             can give                                                    *)
(*   LateSpec  CtlSpec with the agent serving the /start step by step, so  *)
(*             that the controller's HTTP timeout can fire in between      *)
(*                                                                         *)
(* Optional values (Python None) are sets of at most one element: {} is    *)
(* None and {v} is the value v.                                            *)
(***************************************************************************)
EXTENDS Integers, Sequences, FiniteSets, TLC

(***************************************************************************)
(* Bounds of the model.                                                    *)
(***************************************************************************)
MaxPid == 2            \* pids the OS hands out to the agent's jobs
MaxProc == 3           \* the OS process table holds pids 1..MaxProc
MaxTime == 4           \* the clock runs 0..MaxTime
MaxTimeout == 2        \* --timeout is 0..MaxTimeout polling intervals

(***************************************************************************)
(* Program constants.  One clock unit stands for the coarsest interval the *)
(* agent compares against; the thresholds keep the order they have in the  *)
(* code (hang window < pruning age).                                       *)
(***************************************************************************)
HUNG_CPU_PCT == 1      \* agent.py:24  cpu above this counts as active
HUNG_SECS == 2         \* agent.py:25  inactivity window (configurable)
PRUNE_AGE == 3         \* agent.py:360 exited jobs older than this are pruned
SIB_BEFORE == 1        \* agent.py:274 job_start_time - 5
SIB_AFTER == 2         \* agent.py:274 job_start_time + 60

JobIds == {"a"}                         \* job_id values a caller supplies
Uuids == {"u1"}                         \* values uuid.uuid4() can produce
AllJobIds == JobIds \cup Uuids
Cmds == {<<>>, <<"exe", "arg">>}         \* StartRequest.cmd
Modes == {"term", "kill", "tree_kill"}
ReqModes == Modes \cup {"bogus"}        \* StopRequest.mode is any str
Obeys == {"term", "kill", "none"}       \* the signal that ends a process
ExitCodes == {0, 1}
CpuSamples == {0, 1, 2}                 \* below, at and above HUNG_CPU_PCT
Handlers == {"t1", "t2"}                \* HTTP worker threads
Pruner == "pr"                          \* the _metrics_loop thread
Threads == Handlers \cup {Pruner}
Pids == 1..MaxProc
ProcNames == {"other", "carla", "none"}   \* name of a process the OS lists

VARIABLES
    now,        \* time.time()
    os,         \* the OS process table: pid -> process
    nextPid,    \* the next pid the OS hands out
    jobObj,     \* the _Job objects ever constructed, by the pid of their popen
    JOBS,       \* the job table: job_id -> pid of the _Job object
    lock,       \* JOBS_LOCK: {} or {holder}
    pc,         \* thread -> "idle" | "wait" | "in" | "spawn" | "snap"
    req,        \* thread -> the request being served
    out,        \* thread -> the local list `out` of status()
    last,       \* the request that has just completed, with its response
    AUTH_TOKEN, \* the token the agent is configured with
    \* the controller (CtlSpec)
    command,    \* args.cmd; "start_wait" is start with --wait
    clients,    \* inv["clients"] after filter_clients, in inventory order
    timeout,    \* args.timeout
    output,     \* the lines printed that the properties read
    futures,    \* clients whose fan-out call has not completed yet
    calls,      \* client -> the number of requests sent to each endpoint
    reply,      \* the last answer of a polling pass
    started,    \* exec_and_wait: started
    results,    \* exec_and_wait: results; {} is None, {k} is returncode k
    all_done,   \* exec_and_wait: all_done
    elapsed,    \* time.time() - start_time
    idx,        \* position of `for c in inv["clients"]` in the polling pass
    phase,      \* where the controller is
    exit_code   \* the code of sys.exit: {} while running

agentVars == <<now, os, nextPid, jobObj, JOBS, lock, pc, req, out, out, last, AUTH_TOKEN>>
ctlVars == <<command, clients, timeout, output, futures, started, results, all_done,
             elapsed, idx, phase, exit_code, calls, reply>>
vars == <<agentVars, ctlVars>>


(***************************************************************************)
(* The OS process table and subprocess.Popen.                              *)
(*   running  in the table, executing                                      *)
(*   zombie   terminated, still in the table, exit code available to poll  *)
(*   gone     not in the table, exit code available to poll                *)
(*   lost     not in the table and the handle never saw the exit           *)
(***************************************************************************)
FreeProc == [state |-> "free", rc |-> {}, parent |-> 0, name |-> "other", ctime |-> 0]

\* psutil.pid_exists(pid), and psutil.Process(pid) not raising NoSuchProcess
PidExists(table, p) == table[p].state \in {"running", "zombie"}

\* popen.poll(): the exit code once the child has terminated, else None
Poll(table, p) == IF table[p].state \in {"zombie", "gone"} THEN table[p].rc ELSE {}

\* psutil children(recursive=True): the walk over the ppid map of the
\* processes that exist
RECURSIVE Descendants(_, _)
Descendants(table, S) ==
    LET kids == {q \in Pids : PidExists(table, q) /\ table[q].parent \in S} \ S
    IN  IF kids = {} THEN S ELSE Descendants(table, S \cup kids)

\* the process_iter scan of _kill_job, in pid order: a process whose name is
\* None raises AttributeError out of the inner try and ends the whole scan
RECURSIVE ScanFrom(_, _, _, _)
ScanFrom(table, start_ts, q, acc) ==
    IF q > MaxProc THEN acc
    ELSE IF ~PidExists(table, q) THEN ScanFrom(table, start_ts, q + 1, acc)
    ELSE IF table[q].name = "none" THEN acc
    ELSE IF /\ table[q].name = "carla"
            /\ table[q].ctime >= start_ts - SIB_BEFORE
            /\ table[q].ctime <= start_ts + SIB_AFTER
         THEN ScanFrom(table, start_ts, q + 1, acc \cup {q})
         ELSE ScanFrom(table, start_ts, q + 1, acc)

\* all_procs of _kill_job: the child, its descendants, the related siblings
ProcessSet(table, p, start_ts) ==
    ScanFrom(table, start_ts, 1, Descendants(table, {p}))

(***************************************************************************)
(* _Job                                                                    *)
(***************************************************************************)
\* cpu_percent, mem_mb and is_hung of a _Job are written by snapshot and read
\* only by the same call: they are values of the call, not state.
NoJob == [job_id |-> "none", start_ts |-> 0, last_cpu_active_ts |-> 0,
          log_paths |-> FALSE, log_files |-> "none", cmdline |-> <<>>,
          lock |-> {}]

\* a variant that keeps the executable and drops the arguments
NewJobNoArgs(job_id, cmd, logs, t) ==
    [job_id |-> job_id, start_ts |-> t, last_cpu_active_ts |-> t,
     log_paths |-> logs, log_files |-> IF logs THEN "open" ELSE "none",
     cmdline |-> <<Head(cmd)>>, lock |-> {}]

\* _Job.__init__ followed by the log_files assignment of start_job
NewJob(job_id, cmd, logs, t) ==
    [job_id |-> job_id, start_ts |-> t, last_cpu_active_ts |-> t,
     log_paths |-> logs, log_files |-> IF logs THEN "open" ELSE "none",
     cmdline |-> cmd, lock |-> {}]

\* _Job.close_logs
CloseLogs(j) == IF j.log_files = "open" THEN [j EXCEPT !.log_files = "closed"] ELSE j

(***************************************************************************)
(* _kill_job(job, mode).  obey[q] is the signal that ends process q:       *)
(* "term" (the soft one), "kill" (only the hard one) or "none" (it         *)
(* survives both: access denied, or still there when the wait times out).  *)
(* Which it is, is the OS's choice.  The result is the new process table,  *)
(* the new _Job objects, the signals sent and the value returned ("raise"  *)
(* is the unbound local `alive` of a mode that is none of the three).      *)
(***************************************************************************)
\* psutil.wait_procs after a signal: the running processes of `procs` outside
\* `alive` have died of it, and a terminated child still in the table is reaped
Waited(table, objs, procs, alive) ==
    [q \in Pids |->
        IF q \in procs /\ q \notin alive /\ table[q].state = "running"
        THEN [table[q] EXCEPT !.state = "gone",
                              !.rc = IF objs[q] # NoJob THEN {1} ELSE {}]
        ELSE IF q \in procs /\ table[q].state = "zombie"
        THEN [table[q] EXCEPT !.state = "gone"]
        ELSE table[q]]

\* the three ways _kill_job ends
KillTrue(table, objs, p, term, kill) ==
    [os |-> table, jobObj |-> [objs EXCEPT ![p] = CloseLogs(@)],
     ret |-> "true", term |-> term, kill |-> kill]

\* a variant that reports success although a process survived
KillFalseAsTrue(table, objs, p, term, kill) ==
    [os |-> table, jobObj |-> [objs EXCEPT ![p] = CloseLogs(@)],
     ret |-> "true", term |-> term, kill |-> kill]

KillFalse(table, objs, p, term, kill) ==
    [os |-> table, jobObj |-> objs, ret |-> "false", term |-> term, kill |-> kill]

KillRaise(table, objs, p, term, kill) ==
    [os |-> table, jobObj |-> objs, ret |-> "raise", term |-> term, kill |-> kill]

\* a variant that escalates in every mode
HardModeAlways(mode) == TRUE

\* `if mode in ("term", "kill", "tree_kill")` and `if mode in ("kill", "tree_kill")`
SoftMode(mode) == mode \in {"term", "kill", "tree_kill"}
HardMode(mode) == mode \in {"kill", "tree_kill"}

KillJob(table, objs, p, mode, obey) ==
    IF ~PidExists(table, p)
    THEN KillTrue(table, objs, p, {}, {})
    ELSE
    LET all_procs == ProcessSet(table, p, objs[p].start_ts)
        run == {q \in all_procs : table[q].state = "running"}
        term == IF SoftMode(mode) THEN all_procs ELSE {}
        alive1 == {q \in run : obey[q] # "term"}
        t1 == IF SoftMode(mode) THEN Waited(table, objs, all_procs, alive1) ELSE table
        kill == IF HardMode(mode) THEN alive1 ELSE {}
        alive2 == IF HardMode(mode) THEN {q \in alive1 : obey[q] = "none"} ELSE alive1
        t2 == IF HardMode(mode) THEN Waited(t1, objs, all_procs, alive2) ELSE t1
    IN  IF SoftMode(mode) /\ alive1 = {} THEN KillTrue(t1, objs, p, term, {})
        ELSE IF HardMode(mode) /\ alive2 = {} THEN KillTrue(t2, objs, p, term, kill)
        ELSE IF ~PidExists(t2, p) THEN KillTrue(t2, objs, p, term, kill)
        ELSE IF ~SoftMode(mode) THEN KillRaise(t2, objs, p, term, kill)
        ELSE IF alive2 # {} THEN KillFalse(t2, objs, p, term, kill)
        ELSE KillTrue(t2, objs, p, term, kill)

\* the choices the OS has for the processes `procs` that get signals; only a
\* running process has a choice
ObeyChoices(table, procs) ==
    LET free == {q \in procs \cap Pids : table[q].state = "running"}
    IN  {[q \in Pids |-> IF q \in free THEN f[q] ELSE "term"] : f \in [free -> Obeys]}

\* _kill_job on each job of a list in turn (stop_all)
RECURSIVE KillAll(_, _, _, _, _, _)
KillAll(table, objs, ps, mode, obey, acc) ==
    IF ps = <<>> \/ (acc.killret # <<>> /\ acc.killret[Len(acc.killret)] = "raise")
    THEN [os |-> table, jobObj |-> objs, acc |-> acc]
    ELSE LET k == KillJob(table, objs, Head(ps), mode, obey)
         IN  KillAll(k.os, k.jobObj, Tail(ps), mode, obey,
                     [acc EXCEPT !.term = @ \cup k.term, !.kill = @ \cup k.kill,
                                 !.killret = Append(@, k.ret)])

(***************************************************************************)
(* _Job.snapshot                                                           *)
(***************************************************************************)
\* a variant that forgets the last activity on an idle sample
LastActiveOrZero(prev, cpu, t) == IF cpu > HUNG_CPU_PCT THEN t ELSE 0

\* a variant that takes a sample at the threshold for activity
LastActiveInclusive(prev, cpu, t) == IF cpu >= HUNG_CPU_PCT THEN t ELSE prev

\* `if cpu > HUNG_CPU_PCT: self.last_cpu_active_ts = now`
LastActive(prev, cpu, t) == IF cpu > HUNG_CPU_PCT THEN t ELSE prev

\* a variant with a strict comparison
HungFlagStrict(t, active_ts) == (t - active_ts) > HUNG_SECS

\* `self.is_hung = (hung_elapsed >= HUNG_SECS)`
HungFlag(t, active_ts) == (t - active_ts) >= HUNG_SECS

\* the try branch: the _Job after the sample
Sampled(j, cpu, t) == [j EXCEPT !.last_cpu_active_ts = LastActive(@, cpu, t)]

\* the try branch: the ProcInfo returned for the sampled _Job j
LiveInfo(j, p, ret, cpu, mem, t) ==
    [job_id |-> j.job_id, pid |-> p,
     status |-> IF ret # {} THEN "exited" ELSE "running",
     returncode |-> ret,
     start_ts |-> j.start_ts, uptime_sec |-> t - j.start_ts,
     cpu_percent |-> cpu, mem_mb |-> mem,
     last_cpu_active_ts |-> j.last_cpu_active_ts,
     is_hung |-> HungFlag(t, j.last_cpu_active_ts),
     cmdline |-> j.cmdline, logs |-> j.log_paths]

\* a variant that computes the hang flag of a vanished process from the times
VanishedInfoTimed(j, p, ret, t) ==
    [job_id |-> j.job_id, pid |-> p,
     status |-> IF ret # {} THEN "exited" ELSE "unknown",
     returncode |-> ret,
     start_ts |-> j.start_ts,
     uptime_sec |-> IF t - j.start_ts > 0 THEN t - j.start_ts ELSE 0,
     cpu_percent |-> 0, mem_mb |-> 0,
     last_cpu_active_ts |-> j.last_cpu_active_ts,
     is_hung |-> (t - j.last_cpu_active_ts) >= HUNG_SECS,
     cmdline |-> j.cmdline, logs |-> j.log_paths]

\* the `except psutil.NoSuchProcess` branch
VanishedInfo(j, p, ret, t) ==
    [job_id |-> j.job_id, pid |-> p,
     status |-> IF ret # {} THEN "exited" ELSE "unknown",
     returncode |-> ret,
     start_ts |-> j.start_ts,
     uptime_sec |-> IF t - j.start_ts > 0 THEN t - j.start_ts ELSE 0,
     cpu_percent |-> 0, mem_mb |-> 0,
     last_cpu_active_ts |-> j.last_cpu_active_ts, is_hung |-> TRUE,
     cmdline |-> j.cmdline, logs |-> j.log_paths]

\* psutil's readings of a process in the table: cpu is the sample a running
\* process gives; one that has terminated uses no cpu and no memory
CpuOf(table, p, cpu) == IF table[p].state = "running" THEN cpu ELSE 0
MemOf(table, p) == IF table[p].state = "running" THEN 1 ELSE 0

\* snapshot: the ProcInfo for the _Job j of pid p
Snapshot(table, j, p, cpu, t) ==
    IF PidExists(table, p)
    THEN LiveInfo(Sampled(j, CpuOf(table, p, cpu), t), p, Poll(table, p),
                  CpuOf(table, p, cpu), MemOf(table, p), t)
    ELSE VanishedInfo(j, p, Poll(table, p), t)

\* snapshot: the _Job afterwards
SnapshotJob(table, j, p, cpu, t) ==
    IF PidExists(table, p) THEN Sampled(j, CpuOf(table, p, cpu), t) ELSE j

(***************************************************************************)
(* Requests and responses.  A response carries, beside the HTTP answer,    *)
(* what the request did to the OS: files opened, files closed again        *)
(* without a _Job owning them, the child spawned, the signals sent and the *)
(* values _kill_job returned.                                              *)
(***************************************************************************)
NoReq == [op |-> "none", job_id |-> "none", cmd |-> <<>>, log_dir |-> FALSE,
          kill_existing |-> FALSE, mode |-> "term", authorization |-> {}]

StartRequests ==
    {[op |-> "start", job_id |-> j, cmd |-> c, log_dir |-> l,
      kill_existing |-> k, mode |-> "term", authorization |-> {}] :
        j \in JobIds \cup {"none"}, c \in Cmds, l \in BOOLEAN, k \in BOOLEAN}

StopRequests ==
    {[NoReq EXCEPT !.op = "stop", !.job_id = j, !.mode = m] :
        j \in AllJobIds, m \in ReqModes}

StopAllRequests == {[NoReq EXCEPT !.op = "stop_all", !.mode = m] : m \in ReqModes}

StatusRequest == [NoReq EXCEPT !.op = "status"]

PruneRequest == [NoReq EXCEPT !.op = "prune"]

NoResp == [code |-> 0, status |-> "none", job_id |-> "none", pid |-> 0,
           logs |-> FALSE, mode |-> "none", body |-> <<>>,
           opened |-> 0, closedTmp |-> 0, spawned |-> {}, term |-> {},
           kill |-> {}, killret |-> <<>>]

NoLast == [t |-> "none", req |-> NoReq, resp |-> NoResp]

\* for job_id, job in JOBS.items(): insertion order, which is pid order
\* because a job is inserted when its child is spawned
RECURSIVE PidOrder(_)
PidOrder(S) ==
    IF S = {} THEN <<>>
    ELSE LET m == CHOOSE x \in S : \A y \in S : x <= y
         IN  <<m>> \o PidOrder(S \ {m})

TablePids(tbl) == {tbl[j] : j \in DOMAIN tbl}

\* JOBS.pop(job_id, None)
Pop(tbl, job_id) == [j \in (DOMAIN tbl) \ {job_id} |-> tbl[j]]

\* JOBS[job_id] = job
Put(tbl, job_id, p) ==
    [j \in (DOMAIN tbl) \cup {job_id} |-> IF j = job_id THEN p ELSE tbl[j]]

(***************************************************************************)
(* Init                                                                    *)
(***************************************************************************)
AgentInit ==
    /\ now = 0
    /\ os = [p \in Pids |-> FreeProc]
    /\ nextPid = 1
    /\ jobObj = [p \in Pids |-> NoJob]
    /\ JOBS = <<>>
    /\ lock = {}
    /\ pc = [t \in Threads |-> "idle"]
    /\ req = [t \in Threads |-> NoReq]
    /\ out = [t \in Threads |-> <<>>]
    /\ last = NoLast

(***************************************************************************)
(* The environment: the clock and the OS.                                  *)
(***************************************************************************)
\* d units of time pass
Elapse(d) ==
    /\ last = NoLast
    /\ now + d <= MaxTime
    /\ now' = now + d
    /\ UNCHANGED <<os, nextPid, jobObj, JOBS, lock, pc, req, out, last, ctlVars, AUTH_TOKEN>>

Tick == Elapse(1)

\* a process ends by itself: a child of the agent waits in the table for its
\* Popen, any other process leaves the table
ProcExit(p, rc) ==
    /\ last = NoLast
    /\ os[p].state = "running"
    /\ jobObj[p] = NoJob => rc = 0
    /\ os' = [os EXCEPT ![p].state = IF jobObj[p] # NoJob THEN "zombie" ELSE "gone",
                        ![p].rc = IF jobObj[p] # NoJob THEN {rc} ELSE {}]
    /\ UNCHANGED <<now, nextPid, jobObj, JOBS, lock, pc, req, out, last, ctlVars, AUTH_TOKEN>>

\* a terminated child leaves the table, its exit code kept by the handle or not
Reap(p, kept) ==
    /\ last = NoLast
    /\ os[p].state = "zombie"
    /\ os' = [os EXCEPT ![p].state = IF kept THEN "gone" ELSE "lost"]
    /\ UNCHANGED <<now, nextPid, jobObj, JOBS, lock, pc, req, out, last, ctlVars, AUTH_TOKEN>>

\* a running process starts a process of its own (parent # 0), or a process
\* appears that no job started (parent = 0)
Fork(parent, name, top) ==
    /\ last = NoLast
    /\ nextPid <= top
    /\ parent # 0 => os[parent].state = "running"
    /\ os' = [os EXCEPT ![nextPid] = [state |-> "running", rc |-> {},
                                      parent |-> parent, name |-> name,
                                      ctime |-> now]]
    /\ nextPid' = nextPid + 1
    /\ UNCHANGED <<now, jobObj, JOBS, lock, pc, req, out, last, ctlVars, AUTH_TOKEN>>

\* beside the agent's jobs
OsSpawn(parent, name) == Fork(parent, name, MaxPid)

\* anywhere in the process table
OsAppear(parent, name) == Fork(parent, name, MaxProc)

(***************************************************************************)
(* The endpoints.  Each handler runs inside `with JOBS_LOCK`; the end of   *)
(* the block releases the lock on every exit path, exceptions included.    *)
(***************************************************************************)
\* a variant that enters the block without the lock being free
LockIgnored(t) == TRUE

\* with JOBS_LOCK: the lock can be taken
LockFree(t) == lock = {}

\* the handler of request r leaves the `with JOBS_LOCK` block and answers a
Leave(t, r, a) ==
    /\ last = NoLast
    /\ lock' = lock \ {t}
    /\ pc' = [pc EXCEPT ![t] = "idle"]
    /\ req' = [req EXCEPT ![t] = NoReq]
    /\ last' = [t |-> t, req |-> r, resp |-> a]
    /\ UNCHANGED <<out, ctlVars, AUTH_TOKEN>>

\* start_job: the job_id a request resolves to
ResolveIds(r, tbl) ==
    IF r.job_id = "none" THEN Uuids \ DOMAIN tbl ELSE {r.job_id}

\* a variant without the duplicate test
DuplicateNever(tbl, job_id, kill_existing) == FALSE

\* start_job: `elif job_id in JOBS: raise HTTPException(409)`
Duplicate(tbl, job_id, kill_existing) == ~kill_existing /\ job_id \in DOMAIN tbl

\* start_job: `if req.kill_existing and job_id in JOBS`
Replaces(tbl, job_id, kill_existing) == kill_existing /\ job_id \in DOMAIN tbl

\* start_job: the two open() calls ("fail_out" also stands for os.makedirs
\* raising): the number of handles that were opened
Opened(log_dir, outcome) ==
    IF ~log_dir THEN 0
    ELSE IF outcome = "ok" THEN 2
    ELSE IF outcome = "fail_err" THEN 1
    ELSE 0

\* a variant in which Popen never raises
SpawnNeverFails(cmd, spawnOK) == FALSE

\* start_job: subprocess.Popen raises for an empty command, and may for any
SpawnFails(cmd, spawnOK) == cmd = <<>> \/ ~spawnOK

\* start_job: `raise HTTPException(409, ...)`
StartRefuseHolding(t, r) ==
    /\ last = NoLast
    /\ pc' = [pc EXCEPT ![t] = "idle"]
    /\ req' = [req EXCEPT ![t] = NoReq]
    /\ last' = [t |-> t, req |-> r, resp |-> [NoResp EXCEPT !.code = 409]]
    /\ UNCHANGED <<now, os, nextPid, jobObj, JOBS, lock, out, ctlVars, AUTH_TOKEN>>

\* start_job: the 409 leaves the `with JOBS_LOCK:' block
StartRefuse(t, r) ==
    /\ Leave(t, r, [NoResp EXCEPT !.code = 409])
    /\ UNCHANGED <<now, os, nextPid, jobObj, JOBS>>

\* start_job past the duplicate test: the old job killed and removed, the
\* logs opened, the child spawned and the new _Job registered
StartProceed(t, r, job_id, logOutcome, spawnOK, name, obey) ==
    LET replace == Replaces(JOBS, job_id, r.kill_existing)
        k == IF replace
             THEN KillJob(os, jobObj, JOBS[job_id], "tree_kill", obey)
             ELSE [os |-> os, jobObj |-> jobObj, ret |-> "none",
                   term |-> {}, kill |-> {}]
        tbl1 == IF replace THEN Pop(JOBS, job_id) ELSE JOBS
        opened == Opened(r.log_dir, logOutcome)
        logsOK == ~r.log_dir \/ logOutcome = "ok"
        e1 == [NoResp EXCEPT !.term = k.term, !.kill = k.kill,
                             !.killret = IF replace THEN <<k.ret>> ELSE <<>>,
                             !.opened = opened]
    IN
    IF ~logsOK
    THEN /\ Leave(t, r, [e1 EXCEPT !.code = 500])
         /\ os' = k.os /\ jobObj' = k.jobObj /\ JOBS' = tbl1
         /\ UNCHANGED <<now, nextPid>>
    ELSE IF SpawnFails(r.cmd, spawnOK)
    THEN /\ Leave(t, r, [e1 EXCEPT !.code = 500, !.closedTmp = opened])
         /\ os' = k.os /\ jobObj' = k.jobObj /\ JOBS' = tbl1
         /\ UNCHANGED <<now, nextPid>>
    ELSE /\ nextPid <= MaxPid
         /\ Leave(t, r, [e1 EXCEPT !.code = 200, !.job_id = job_id,
                                   !.pid = nextPid, !.logs = r.log_dir,
                                   !.spawned = {nextPid}])
         /\ os' = [k.os EXCEPT ![nextPid] =
                     [state |-> "running", rc |-> {}, parent |-> 0,
                      name |-> name, ctime |-> now]]
         /\ jobObj' = [k.jobObj EXCEPT ![nextPid] =
                         NewJob(job_id, r.cmd, r.log_dir, now)]
         /\ JOBS' = Put(tbl1, job_id, nextPid)
         /\ nextPid' = nextPid + 1
         /\ UNCHANGED now

\* start_job, from the resolved job_id to the response
StartJob(t, r, job_id, logOutcome, spawnOK, name, obey) ==
    /\ r.op = "start"
    /\ job_id \in ResolveIds(r, JOBS)
    /\ IF Duplicate(JOBS, job_id, r.kill_existing)
       THEN StartRefuse(t, r)
       ELSE StartProceed(t, r, job_id, logOutcome, spawnOK, name, obey)

\* a variant that answers an unknown job_id like a known one
MissingSent(r) ==
    [NoResp EXCEPT !.code = 200, !.status = "sent", !.job_id = r.job_id,
                   !.mode = r.mode]

\* stop_job: `if not job: raise HTTPException(404, ...)`
Missing(r) == [NoResp EXCEPT !.code = 404]

\* stop_job: the answer for what _kill_job returned
StopAnswer(r, k) ==
    LET e == [NoResp EXCEPT !.term = k.term, !.kill = k.kill, !.killret = <<k.ret>>]
    IN  IF k.ret = "raise"
        THEN [e EXCEPT !.code = 500]
        ELSE [e EXCEPT !.code = 200, !.status = "sent", !.job_id = r.job_id,
                       !.mode = r.mode]

\* a variant that drops the job from the table once it was signalled
StopJobAndForget(t, r, obey) ==
    /\ r.op = "stop"
    /\ IF r.job_id \notin DOMAIN JOBS
       THEN /\ Leave(t, r, Missing(r))
            /\ UNCHANGED <<now, os, nextPid, jobObj, JOBS>>
       ELSE LET k == KillJob(os, jobObj, JOBS[r.job_id], r.mode, obey) IN
            /\ Leave(t, r, StopAnswer(r, k))
            /\ os' = k.os /\ jobObj' = k.jobObj
            /\ JOBS' = Pop(JOBS, r.job_id)
            /\ UNCHANGED <<now, nextPid>>

\* stop_job
StopJob(t, r, obey) ==
    /\ r.op = "stop"
    /\ IF r.job_id \notin DOMAIN JOBS
       THEN /\ Leave(t, r, Missing(r))
            /\ UNCHANGED <<now, os, nextPid, jobObj, JOBS>>
       ELSE LET k == KillJob(os, jobObj, JOBS[r.job_id], r.mode, obey) IN
            /\ Leave(t, r, StopAnswer(r, k))
            /\ os' = k.os /\ jobObj' = k.jobObj
            /\ UNCHANGED <<now, nextPid, JOBS>>

\* stop_all
StopAll(t, r, obey) ==
    LET k == KillAll(os, jobObj, PidOrder(TablePids(JOBS)), r.mode, obey, NoResp)
        raised == k.acc.killret # <<>> /\ k.acc.killret[Len(k.acc.killret)] = "raise"
    IN
    /\ r.op = "stop_all"
    /\ Leave(t, r, IF raised
                   THEN [k.acc EXCEPT !.code = 500]
                   ELSE [k.acc EXCEPT !.code = 200, !.status = "sent", !.mode = r.mode])
    /\ os' = k.os /\ jobObj' = k.jobObj
    /\ UNCHANGED <<now, nextPid, JOBS>>

\* status: cpu[p] is the sample psutil returns for process p
Status(t, r, cpu) ==
    LET ps == PidOrder(TablePids(JOBS)) IN
    /\ r.op = "status"
    /\ Leave(t, r, [NoResp EXCEPT !.code = 200,
                      !.body = [i \in 1..Len(ps) |->
                                  Snapshot(os, jobObj[ps[i]], ps[i], cpu[ps[i]], now)]])
    /\ jobObj' = [p \in Pids |-> IF p \in TablePids(JOBS)
                                 THEN SnapshotJob(os, jobObj[p], p, cpu[p], now)
                                 ELSE jobObj[p]]
    /\ UNCHANGED <<now, os, nextPid, JOBS>>

\* the samples psutil can return: only a running job process uses cpu
CpuChoices ==
    LET busy == {p \in TablePids(JOBS) : os[p].state = "running"}
    IN  {[p \in Pids |-> IF p \in busy THEN f[p] ELSE 0] : f \in [busy -> CpuSamples]}

\* a variant that prunes an exited job whatever its age
PrunableAtOnce(table, j, p, t) == Poll(table, p) # {}

\* _metrics_loop: `if job.popen.poll() is not None:
\*                   if (time.time() - job.start_ts) > 3600`
Prunable(table, j, p, t) == Poll(table, p) # {} /\ (t - j.start_ts) > PRUNE_AGE

\* _metrics_loop: one pass over the table
Prune(t, r) ==
    LET pruned == {jid \in DOMAIN JOBS :
                      Prunable(os, jobObj[JOBS[jid]], JOBS[jid], now)} IN
    /\ r.op = "prune"
    /\ jobObj' = [p \in Pids |-> IF \E jid \in pruned : JOBS[jid] = p
                                 THEN CloseLogs(jobObj[p]) ELSE jobObj[p]]
    /\ JOBS' = [jid \in (DOMAIN JOBS) \ pruned |-> JOBS[jid]]
    /\ Leave(t, r, [NoResp EXCEPT !.status = "pruned"])
    /\ UNCHANGED <<now, os, nextPid>>

\* the response has been delivered: nothing else happens between the end of
\* a request and the delivery of its response (every other step waits for
\* last = NoLast)
Deliver ==
    /\ last # NoLast
    /\ last' = NoLast
    /\ UNCHANGED <<now, os, nextPid, jobObj, JOBS, lock, pc, req, out, ctlVars, AUTH_TOKEN>>

(***************************************************************************)
(* The choices of a caller and of the environment in each request.         *)
(***************************************************************************)
\* a thread that finds the lock free runs its handler in one piece
Free(t) == last = NoLast /\ pc[t] = "idle" /\ LockFree(t)

LogOutcomes == {"ok", "fail_out", "fail_err"}

\* the choices the environment has in a call of start_job
StartChoices(r) ==
    {c \in [job_id : ResolveIds(r, JOBS), lo : LogOutcomes, ok : BOOLEAN] :
        /\ r.log_dir \/ c.lo = "ok"
        /\ r.cmd # <<>> \/ ~c.ok}

\* the processes the jobs `jids` of the table would have signalled
Signalled(jids) ==
    UNION {ProcessSet(os, JOBS[j], jobObj[JOBS[j]].start_ts) : j \in jids \cap DOMAIN JOBS}

StartNow(t, reqs) ==
    /\ Free(t)
    /\ \E r \in reqs : \E c \in StartChoices(r) :
         \E obey \in ObeyChoices(os, IF r.kill_existing
                                     THEN Signalled({c.job_id}) ELSE {}) :
            StartJob(t, r, c.job_id, c.lo, c.ok, "other", obey)

StopNow(t) ==
    /\ Free(t)
    /\ \E r \in StopRequests : \E obey \in ObeyChoices(os, Signalled({r.job_id})) :
          StopJob(t, r, obey)

StopAllNow(t) ==
    /\ Free(t)
    /\ \E r \in StopAllRequests : \E obey \in ObeyChoices(os, Signalled(DOMAIN JOBS)) :
          StopAll(t, r, obey)

StatusNow(t) ==
    Free(t) /\ \E cpu \in CpuChoices : Status(t, StatusRequest, cpu)

PruneNow == Free(Pruner) /\ Prune(Pruner, PruneRequest)

(***************************************************************************)
(* The request gate.  An Authorization header is absent ({}) or the string *)
(* scheme + " " + rest, held as {[scheme, rest]}.                          *)
(***************************************************************************)
Tokens == {"change-me", "secret"}       \* CARLA_AGENT_TOKEN unset, or set
Schemes == {"Bearer", "bearer", "Basic"}
Rests == {"secret", "secret ", "wrong"}

Headers == {{}} \cup {{[scheme |-> sc, rest |-> rs]} : sc \in Schemes, rs \in Rests}

\* str.strip() on the values of Rests
Strip(rs) == IF rs = "secret " THEN "secret" ELSE rs

\* authorization.startswith("Bearer ")
StartsWithBearer(h) == h.scheme = "Bearer"

\* a variant that asks for a bearer token and does not compare it
RequireAuthAnyToken(cfg, authorization) ==
    IF cfg = "change-me" THEN 0
    ELSE IF authorization = {} \/ \A h \in authorization : ~StartsWithBearer(h)
    THEN 401
    ELSE 0

\* require_auth: 0 when the request may pass, else the status code raised
RequireAuth(cfg, authorization) ==
    IF cfg = "change-me" THEN 0
    ELSE IF authorization = {} \/ \A h \in authorization : ~StartsWithBearer(h)
    THEN 401
    ELSE IF \E h \in authorization : Strip(h.rest) # cfg
    THEN 403
    ELSE 0

\* the dependency raised: the handler is not entered
Reject(t, r, code) ==
    /\ Leave(t, r, [NoResp EXCEPT !.code = code])
    /\ UNCHANGED <<now, os, nextPid, jobObj, JOBS>>

\* requests with any header
WithHeaders(reqs) ==
    {[r EXCEPT !.authorization = h] : r \in reqs, h \in Headers}

\* the handler of request r, entered
Serve(t, r) ==
    CASE r.op = "start" ->
           \E c \in StartChoices(r) :
             \E obey \in ObeyChoices(os, IF r.kill_existing
                                         THEN Signalled({c.job_id}) ELSE {}) :
                StartJob(t, r, c.job_id, c.lo, c.ok, "other", obey)
      [] r.op = "stop" ->
           \E obey \in ObeyChoices(os, Signalled({r.job_id})) : StopJob(t, r, obey)
      [] r.op = "stop_all" ->
           \E obey \in ObeyChoices(os, Signalled(DOMAIN JOBS)) : StopAll(t, r, obey)
      [] r.op = "status" ->
           \E cpu \in CpuChoices : Status(t, r, cpu)

\* a request to an endpoint with dependencies=[Depends(require_auth)]
Guarded(t, reqs) ==
    /\ Free(t)
    /\ \E r \in WithHeaders(reqs) :
          LET code == RequireAuth(AUTH_TOKEN, r.authorization)
          IN  IF code = 0 THEN Serve(t, r) ELSE Reject(t, r, code)

HealthRequest == [NoReq EXCEPT !.op = "health"]

\* health: no dependency, no lock; the answer holds len(JOBS)
Health(t) ==
    /\ last = NoLast /\ pc[t] = "idle"
    /\ \E r \in WithHeaders({HealthRequest}) :
          Leave(t, r, [NoResp EXCEPT !.code = 200, !.status = "ok",
                                     !.pid = Cardinality(DOMAIN JOBS)])
    /\ UNCHANGED <<now, os, nextPid, jobObj, JOBS>>

(***************************************************************************)
(* The controller: main with its four subcommands, the fan-out, and        *)
(* exec_and_wait with the verdict for `exec` and for `start --wait`.  The  *)
(* client Local is served by the agent of this module; the other clients'  *)
(* agents are seen through their HTTP answers.                             *)
(***************************************************************************)
Inventory == <<"c1", "c2">>             \* inv["clients"], by name
Local == "c1"                           \* the client whose agent is modelled
WaitCmds == {"exec", "start_wait"}
Commands == WaitCmds \cup {"start", "stop", "status"}

\* the endpoint a subcommand fans out to
Endpoint(c) == IF c = "stop" THEN "stop_all" ELSE IF c = "status" THEN "status" ELSE "start"

\* the payload main builds for start and exec
Payload ==
    [NoReq EXCEPT !.op = "start", !.job_id = "a", !.cmd = <<"exe", "arg">>,
                  !.log_dir = TRUE, !.kill_existing = TRUE]

\* what a polling GET /status can bring back for the target job_id
PollAnswers ==
    {[kind |-> "error", returncode |-> {}],        \* transport error
     [kind |-> "http_error", returncode |-> {}],   \* not resp.ok
     [kind |-> "absent", returncode |-> {}],       \* 200, job_id not listed
     [kind |-> "running", returncode |-> {}],
     [kind |-> "unknown", returncode |-> {}]}      \* "returncode": null
    \cup {[kind |-> "exited", returncode |-> {k}] : k \in ExitCodes}

\* exec_and_wait: the scan of the /status list for the target job_id
RECURSIVE JobAnswer(_, _)
JobAnswer(jobs, job_id) ==
    IF jobs = <<>> THEN [kind |-> "absent", returncode |-> {}]
    ELSE IF Head(jobs).job_id = job_id
         THEN [kind |-> Head(jobs).status, returncode |-> Head(jobs).returncode]
         ELSE JobAnswer(Tail(jobs), job_id)

\* filter_clients: the inventory entries whose name is allowed, in order
RECURSIVE FilterClients(_, _)
FilterClients(inv, allowed) ==
    IF inv = <<>> THEN <<>>
    ELSE IF Head(inv) \in allowed
         THEN <<Head(inv)>> \o FilterClients(Tail(inv), allowed)
         ELSE FilterClients(Tail(inv), allowed)

Names(cs) == {cs[i] : i \in 1..Len(cs)}

\* --clients: {} when the option is absent (or empty), else {the names given}
Filters == {{}} \cup {{S} : S \in (SUBSET (Names(Inventory) \cup {"cx"})) \ {{}}}

\* filter_clients: `if not client_filter: return inv`
Filtered(inv, client_filter) ==
    IF client_filter = {} THEN inv
    ELSE FilterClients(inv, CHOOSE S \in client_filter : TRUE)

\* filter_clients: `if not filtered: print("[WARN] No clients matched ...")`
FilterWarning(inv, client_filter) ==
    IF client_filter # {} /\ Filtered(inv, client_filter) = <<>>
    THEN {[name |-> "-", text |-> "WARN no clients matched"]}
    ELSE {}

NoCalls == [start |-> 0, status |-> 0, stop_all |-> 0]

\* one more request to endpoint e of each client of `names`
Called(cs, names, e) ==
    [n \in DOMAIN cs |-> IF n \in names THEN [cs[n] EXCEPT ![e] = @ + 1] ELSE cs[n]]

NoReply == [name |-> "none", kind |-> "none", returncode |-> {}]

\* no controller runs
CtlIdle ==
    /\ command = "none" /\ clients = <<>> /\ timeout = 0 /\ futures = {}
    /\ started = <<>> /\ results = <<>> /\ all_done = TRUE /\ elapsed = 0
    /\ idx = 1 /\ phase = "idle" /\ exit_code = {}
    /\ output = {} /\ calls = [n \in Names(Inventory) |-> NoCalls] /\ reply = NoReply

\* main up to the dispatch on args.cmd: the inventory is loaded and filtered
CtlInit ==
    /\ command \in Commands
    /\ \E client_filter \in Filters :
          /\ clients = Filtered(Inventory, client_filter)
          /\ output = FilterWarning(Inventory, client_filter)
    /\ timeout \in IF command \in WaitCmds THEN 0..MaxTimeout ELSE {0}
    /\ futures = {}
    /\ started = <<>> /\ results = <<>> /\ all_done = TRUE /\ elapsed = 0
    /\ idx = 1 /\ phase = "main" /\ exit_code = {}
    /\ calls = [n \in Names(Inventory) |-> NoCalls] /\ reply = NoReply

\* ThreadPoolExecutor(max_workers=min(32, len(inv["clients"]))) raises
\* ValueError for max_workers = 0
PoolFails(cs) == Len(cs) = 0

\* start_all, stop_all, status, exec_and_wait: the pool is created and one
\* request per client is submitted; an exception nobody catches ends the
\* process with code 1
CtlSubmit ==
    /\ phase = "main"
    /\ IF PoolFails(clients)
       THEN /\ phase' = "raised"
            /\ exit_code' = {1}
            /\ UNCHANGED <<futures, calls>>
       ELSE /\ phase' = "fanout"
            /\ futures' = Names(clients)
            /\ calls' = Called(calls, Names(clients), Endpoint(command))
            /\ UNCHANGED exit_code
    /\ UNCHANGED <<command, clients, timeout, output, started, results, all_done,
                   elapsed, idx, reply, agentVars>>

\* the agent of Local serves the /start of the fan-out
AgentStart ==
    /\ phase = "fanout" /\ Local \in futures /\ Endpoint(command) = "start"
    /\ StartNow("t1", {Payload})

\* _post_json, _post_empty, _get: (name, ok, data)
ReplyLine(name, ok) == [name |-> name, text |-> IF ok THEN "ok" ELSE "failed"]

\* for fut in as_completed(futures): the line is printed and, in
\* exec_and_wait, started[name] = ok.  The agent's answer to Local is the one
\* in `last`; no answer at all is a transport error.
CtlStartReply(c, ok) ==
    /\ phase = "fanout" /\ c \in futures
    /\ IF last # NoLast
       THEN c = Local /\ ok = (last.resp.code = 200)
       ELSE (c = Local /\ Endpoint(command) = "start") => ~ok
    /\ last' = NoLast
    /\ futures' = futures \ {c}
    /\ output' = output \cup {ReplyLine(c, ok)}
    /\ started' = IF command \in WaitCmds
                  THEN [n \in (DOMAIN started) \cup {c} |->
                          IF n = c THEN ok ELSE started[n]]
                  ELSE started
    /\ UNCHANGED <<command, clients, timeout, results, all_done, elapsed, idx, phase,
                   exit_code, calls, reply>>
    /\ UNCHANGED <<now, os, nextPid, jobObj, JOBS, lock, pc, req, out, AUTH_TOKEN>>

\* start_all, stop_all, status return and main ends
CtlReturn ==
    /\ phase = "fanout" /\ futures = {} /\ command \notin WaitCmds
    /\ phase' = "done"
    /\ exit_code' = {0}
    /\ UNCHANGED <<command, clients, timeout, output, futures, started, results,
                   all_done, elapsed, idx, calls, reply, agentVars>>

\* `while time.time() - start_time < timeout`
InTime(e, limit) == e < limit

\* the fan-out is over: the polling loop is entered, or not
CtlBeginPoll ==
    /\ phase = "fanout" /\ futures = {} /\ command \in WaitCmds
    /\ phase' = IF InTime(elapsed, timeout) THEN "poll" ELSE "after"
    /\ all_done' = TRUE /\ idx' = 1
    /\ UNCHANGED <<command, clients, timeout, output, futures, started, results,
                   elapsed, exit_code, calls, reply, agentVars>>

\* a variant that polls a client again although it has a result
SkippedUnstarted(name) == name \notin DOMAIN started \/ ~started[name]

\* `if name in results: continue` and `if not started.get(name): continue`
Skipped(name) ==
    name \in DOMAIN results \/ name \notin DOMAIN started \/ ~started[name]

CtlSkip ==
    /\ phase = "poll" /\ idx <= Len(clients)
    /\ Skipped(clients[idx])
    /\ idx' = idx + 1
    /\ UNCHANGED <<command, clients, timeout, output, futures, started, results,
                   all_done, elapsed, phase, exit_code, calls, reply, agentVars>>

\* the agent of Local serves the GET /status of a polling pass
AgentStatus ==
    /\ phase = "poll" /\ idx <= Len(clients)
    /\ clients[idx] = Local /\ ~Skipped(Local)
    /\ StatusNow("t1")

\* `if job["status"] in ("exited", "unknown")`
Finished(ans) == ans.kind \in {"exited", "unknown"}

\* results[name] = job.get("returncode", 0): the key is always there, so a
\* null returncode is recorded as None
Recorded(returncode) == returncode

\* one client of a polling pass.  The agent's answer to Local is the one in
\* `last`; no answer at all is a transport or HTTP error.
CtlPoll(ans) ==
    LET name == clients[idx]
        rec(v) == [n \in (DOMAIN results) \cup {name} |->
                     IF n = name THEN v ELSE results[n]]
    IN
    /\ phase = "poll" /\ idx <= Len(clients)
    /\ ~Skipped(name)
    /\ IF last # NoLast
       THEN name = Local /\ ans = JobAnswer(last.resp.body, Payload.job_id)
       ELSE name = Local => ans.kind \in {"error", "http_error"}
    /\ last' = NoLast
    /\ idx' = idx + 1
    /\ calls' = Called(calls, {name}, "status")
    /\ reply' = [name |-> name, kind |-> ans.kind, returncode |-> ans.returncode]
    /\ IF Finished(ans)
       THEN results' = rec(Recorded(ans.returncode)) /\ UNCHANGED all_done
       ELSE IF ans.kind = "absent"
       THEN results' = rec({0}) /\ UNCHANGED all_done
       ELSE all_done' = FALSE /\ UNCHANGED results
    /\ UNCHANGED <<command, clients, timeout, output, futures, started, elapsed,
                   phase, exit_code>>
    /\ UNCHANGED <<now, os, nextPid, jobObj, JOBS, lock, pc, req, out, AUTH_TOKEN>>

\* the pass is over: `if all_done: break`, else sleep and test the deadline;
\* the requests of the pass may have used any part of the time left
CtlPassEnd(e) ==
    /\ phase = "poll" /\ idx > Len(clients)
    /\ IF all_done
       THEN /\ e = elapsed
            /\ phase' = "after"
            /\ UNCHANGED <<elapsed, all_done, idx>>
       ELSE /\ e > elapsed
            /\ elapsed' = e
            /\ phase' = IF InTime(e, timeout) THEN "poll" ELSE "after"
            /\ all_done' = TRUE /\ idx' = 1
    /\ UNCHANGED <<command, clients, timeout, output, futures, started, results,
                   exit_code, calls, reply, agentVars>>

\* `if started.get(name) and name not in results: results[name] = None`
TimedOut(st, res) ==
    {n \in DOMAIN st : st[n] /\ n \notin DOMAIN res}

CtlTimeouts ==
    /\ phase = "after"
    /\ results' = [n \in (DOMAIN results) \cup TimedOut(started, results) |->
                     IF n \in DOMAIN results THEN results[n] ELSE {}]
    /\ phase' = "results"
    /\ UNCHANGED <<command, clients, timeout, output, futures, started, all_done,
                   elapsed, idx, exit_code, calls, reply, agentVars>>

\* a variant that lets a timeout pass for a success
AllSuccessOrTimeout(res) == \A n \in DOMAIN res : res[n] \in {{0}, {}}

\* main: all_success starts True and every entry that is not 0 clears it
AllSuccess(res) == \A n \in DOMAIN res : res[n] = {0}

\* main: sys.exit(0 if all_success else 1)
ExitCode(res) == IF AllSuccess(res) THEN 0 ELSE 1

CtlExit ==
    /\ phase = "results"
    /\ exit_code' = {ExitCode(results)}
    /\ phase' = "done"
    /\ UNCHANGED <<command, clients, timeout, output, futures, started, results,
                   all_done, elapsed, idx, calls, reply, agentVars>>

CtlStep ==
    \/ CtlSubmit
    \/ AgentStart
    \/ \E c \in Names(Inventory), ok \in BOOLEAN : CtlStartReply(c, ok)
    \/ CtlReturn
    \/ CtlBeginPoll
    \/ CtlSkip
    \/ AgentStatus
    \/ \E ans \in PollAnswers : CtlPoll(ans)
    \/ \E e \in 0..MaxTimeout : CtlPassEnd(e)
    \/ CtlTimeouts
    \/ CtlExit
    \/ \E p \in Pids, rc \in ExitCodes : ProcExit(p, rc)
    \/ \E p \in Pids, kept \in BOOLEAN : Reap(p, kept)

CtlNext == CtlStep

CtlStart == AgentInit /\ CtlInit /\ AUTH_TOKEN = "change-me"

CtlSpec == CtlStart /\ [][CtlNext]_vars

(***************************************************************************)
(* Spec: the agent starting and stopping jobs, one request at a time, the  *)
(* OS ending processes and the processes forking around it.  The clock     *)
(* stands still: every job is younger than any of the agent's thresholds.  *)
(***************************************************************************)
LifeStep ==
    \/ \E p \in Pids : ProcExit(p, 0)
    \/ \E p \in Pids : Reap(p, TRUE)
    \/ \E parent \in Pids : OsSpawn(parent, "other")
    \/ StartNow("t1", StartRequests)
    \/ StopNow("t1")
    \/ StopAllNow("t1")

\* AUTH_TOKEN = os.environ.get("CARLA_AGENT_TOKEN", "change-me"), not set
Init == AgentInit /\ CtlIdle /\ AUTH_TOKEN = "change-me"

Next == LifeStep \/ Deliver

Spec == Init /\ [][Next]_vars

(***************************************************************************)
(* StatSpec: jobs are started and /status samples them while their         *)
(* processes end and leave the process table.                              *)
(***************************************************************************)
PlainStarts == {r \in StartRequests : r.cmd # <<>> /\ ~r.kill_existing /\ ~r.log_dir}

StatStep ==
    \/ \E p \in Pids, rc \in ExitCodes : ProcExit(p, rc)
    \/ \E p \in Pids, kept \in BOOLEAN : Reap(p, kept)
    \/ StartNow("t1", PlainStarts)
    \/ StatusNow("t1")

StatNext == StatStep \/ Deliver

StatSpec == Init /\ [][StatNext]_vars

(***************************************************************************)
(* TimeSpec: the clock runs; one job at a time is started, sampled and     *)
(* pruned, and its process ends by itself.                                 *)
(***************************************************************************)
TimedStarts ==
    {r \in StartRequests : r.cmd # <<>> /\ ~r.kill_existing /\ r.job_id \in JobIds}

TimeStep ==
    \/ Tick
    \/ \E p \in Pids, rc \in ExitCodes : ProcExit(p, rc)
    \/ \E p \in Pids, kept \in BOOLEAN : Reap(p, kept)
    \/ StartNow("t1", TimedStarts)
    \/ StatusNow("t1")
    \/ PruneNow

TimeNext == TimeStep \/ Deliver

TimeSpec == Init /\ [][TimeNext]_vars

(***************************************************************************)
(* RaceSpec: two handler threads and the pruner thread contend for         *)
(* JOBS_LOCK.  A thread receives its request (Call), waits for the lock    *)
(* (Acquire) and runs its handler holding it; start_job is two steps, the  *)
(* duplicate test and the rest.  Time passes an hour at a time, which is   *)
(* what the pruner tells apart.                                            *)
(***************************************************************************)
Call(t, r) ==
    /\ last = NoLast
    /\ pc[t] = "idle"
    /\ pc' = [pc EXCEPT ![t] = "wait"]
    /\ req' = [req EXCEPT ![t] = r]
    /\ UNCHANGED <<now, os, nextPid, jobObj, JOBS, lock, out, last, ctlVars, AUTH_TOKEN>>

Acquire(t) ==
    /\ last = NoLast
    /\ pc[t] = "wait"
    /\ LockFree(t)
    /\ lock' = lock \cup {t}
    /\ pc' = [pc EXCEPT ![t] = "in"]
    /\ UNCHANGED <<now, os, nextPid, jobObj, JOBS, req, out, last, ctlVars, AUTH_TOKEN>>

\* start_job inside the block, up to the duplicate test
StartCheck(t) ==
    /\ last = NoLast
    /\ pc[t] = "in" /\ req[t].op = "start"
    /\ IF Duplicate(JOBS, req[t].job_id, req[t].kill_existing)
       THEN StartRefuse(t, req[t])
       ELSE /\ pc' = [pc EXCEPT ![t] = "spawn"]
            /\ UNCHANGED <<now, os, nextPid, jobObj, JOBS, lock, req, out, last,
                           ctlVars, AUTH_TOKEN>>

\* start_job inside the block, after the duplicate test
StartSpawn(t) ==
    /\ last = NoLast /\ pc[t] = "spawn"
    /\ \E c \in StartChoices(req[t]) :
         \E obey \in ObeyChoices(os, IF Replaces(JOBS, c.job_id, req[t].kill_existing)
                                     THEN Signalled({c.job_id}) ELSE {}) :
            StartProceed(t, req[t], c.job_id, c.lo, c.ok, "other", obey)

StopBody(t) ==
    /\ last = NoLast /\ pc[t] = "in" /\ req[t].op = "stop"
    /\ \E obey \in ObeyChoices(os, Signalled({req[t].job_id})) :
          StopJob(t, req[t], obey)

StopAllBody(t) ==
    /\ last = NoLast /\ pc[t] = "in" /\ req[t].op = "stop_all"
    /\ \E obey \in ObeyChoices(os, Signalled(DOMAIN JOBS)) :
          StopAll(t, req[t], obey)

PruneBody == last = NoLast /\ pc[Pruner] = "in" /\ Prune(Pruner, req[Pruner])

RaceRequests ==
    {r \in StartRequests : r.cmd # <<>> /\ ~r.log_dir /\ r.job_id \in JobIds}
    \cup {r \in StopRequests : r.mode = "tree_kill" /\ r.job_id \in JobIds}
    \cup {r \in StopAllRequests : r.mode = "tree_kill"}

RaceStep ==
    \/ Elapse(PRUNE_AGE + 1)
    \/ \E p \in Pids : ProcExit(p, 0)
    \/ \E t \in Handlers, r \in RaceRequests : Call(t, r)
    \/ Call(Pruner, PruneRequest)
    \/ \E t \in Threads : Acquire(t)
    \/ \E t \in Handlers : StartCheck(t)
    \/ \E t \in Handlers : StartSpawn(t)
    \/ \E t \in Handlers : StopBody(t)
    \/ \E t \in Handlers : StopAllBody(t)
    \/ PruneBody

RaceNext == RaceStep \/ Deliver

RaceSpec == Init /\ [][RaceNext]_vars

(***************************************************************************)
(* AuthSpec: the agent runs with or without CARLA_AGENT_TOKEN set and      *)
(* receives requests with every kind of Authorization header.              *)
(***************************************************************************)
AuthStarts == {r \in StartRequests : r.cmd # <<>> /\ ~r.log_dir /\ r.job_id \in JobIds}
AuthStops == {r \in StopRequests : r.mode = "tree_kill" /\ r.job_id \in JobIds}
AuthStopAlls == {r \in StopAllRequests : r.mode = "tree_kill"}

AuthStep ==
    \/ \E p \in Pids : ProcExit(p, 0)
    \/ Guarded("t1", AuthStarts)
    \/ Guarded("t1", AuthStops)
    \/ Guarded("t1", AuthStopAlls)
    \/ Guarded("t1", {StatusRequest})
    \/ Health("t1")

AuthNext == AuthStep \/ Deliver

AuthInit == AgentInit /\ CtlIdle /\ AUTH_TOKEN \in Tokens

AuthSpec == AuthInit /\ [][AuthNext]_vars

(***************************************************************************)
(* KillSpec: one job among other processes.  Processes of any name appear  *)
(* before and after the job's start, as its descendants or not, time       *)
(* passes between them, and /stop runs _kill_job on the job's tree.        *)
(***************************************************************************)
KillStarts ==
    {r \in StartRequests :
        r.cmd # <<>> /\ ~r.log_dir /\ ~r.kill_existing /\ r.job_id \in JobIds}

KillStops == {r \in StopRequests : r.mode = "tree_kill" /\ r.job_id \in JobIds}

StopTree(t) ==
    /\ Free(t)
    /\ \E r \in KillStops : \E obey \in ObeyChoices(os, Signalled({r.job_id})) :
          StopJob(t, r, obey)

KillStep ==
    \/ Elapse(SIB_AFTER)
    \/ \E parent \in Pids \cup {0}, name \in ProcNames : OsAppear(parent, name)
    \/ StartNow("t1", KillStarts)
    \/ StopTree("t1")

KillNext == KillStep \/ Deliver

KillSpec == Init /\ [][KillNext]_vars

(***************************************************************************)
(* LockSpec: two handler threads take JOBS_LOCK step by step, as in        *)
(* RaceSpec, for /start, /status and /stop_all.  status() samples every    *)
(* job inside its `with JOBS_LOCK:' block and stop_all() runs its loop of  *)
(* _kill_job inside its own, so both bodies are steps of a thread that     *)
(* holds the lock.                                                         *)
(***************************************************************************)
StatusBody(t) ==
    /\ last = NoLast /\ pc[t] = "in" /\ req[t].op = "status"
    /\ \E cpu \in CpuChoices : Status(t, req[t], cpu)

LockRequests ==
    {r \in StartRequests : r.cmd # <<>> /\ ~r.log_dir /\ ~r.kill_existing /\ r.job_id \in JobIds}
    \cup {StatusRequest}
    \cup {r \in StopAllRequests : r.mode = "tree_kill"}

LockStep ==
    \/ \E p \in Pids : ProcExit(p, 0)
    \/ \E t \in Handlers, r \in LockRequests : Call(t, r)
    \/ \E t \in Handlers : Acquire(t)
    \/ \E t \in Handlers : StartCheck(t)
    \/ \E t \in Handlers : StartSpawn(t)
    \/ \E t \in Handlers : StatusBody(t)
    \/ \E t \in Handlers : StopAllBody(t)

LockNext == LockStep \/ Deliver

LockSpec == Init /\ [][LockNext]_vars

(***************************************************************************)
(* TableSpec: every operation that reads or writes the job table, one at a *)
(* time: /start with and without kill_existing, /stop, /stop_all, /status  *)
(* and the pruner, while processes end and an hour passes.                 *)
(***************************************************************************)
TableStarts == {r \in StartRequests : r.cmd # <<>> /\ ~r.log_dir}
TableStopAlls == {r \in StopAllRequests : r.mode = "tree_kill"}

StopAllTree(t) ==
    /\ Free(t)
    /\ \E r \in TableStopAlls : \E obey \in ObeyChoices(os, Signalled(DOMAIN JOBS)) :
          StopAll(t, r, obey)

TableStep ==
    \/ Elapse(PRUNE_AGE + 1)
    \/ \E p \in Pids : ProcExit(p, 0)
    \/ StartNow("t1", TableStarts)
    \/ StopTree("t1")
    \/ StopAllTree("t1")
    \/ StatusNow("t1")
    \/ PruneNow

TableNext == TableStep \/ Deliver

TableSpec == Init /\ [][TableNext]_vars

(***************************************************************************)
(* OrderSpec: the two mutexes.  Two handler threads and the pruner thread  *)
(* take JOBS_LOCK step by step as in RaceSpec; status() is a loop of       *)
(* snapshot() calls, each of which takes the mutex of its _Job, samples    *)
(* and gives the mutex back.  A thread that is inside a block runs on      *)
(* (every OS wait is bounded), and a thread that waits for JOBS_LOCK gets  *)
(* it if it is free again and again.                                       *)
(***************************************************************************)
\* status: `for job_id, job in JOBS.items()', the next job of the loop
NextJob(t) == PidOrder(TablePids(JOBS))[Len(out[t]) + 1]

\* snapshot: `with self.lock:' is entered
SnapshotEnter(t) ==
    /\ last = NoLast /\ pc[t] = "in" /\ req[t].op = "status"
    /\ Len(out[t]) < Cardinality(DOMAIN JOBS)
    /\ jobObj[NextJob(t)].lock = {}
    /\ jobObj' = [jobObj EXCEPT ![NextJob(t)].lock = {t}]
    /\ pc' = [pc EXCEPT ![t] = "snap"]
    /\ UNCHANGED <<now, os, nextPid, JOBS, lock, req, out, last, ctlVars, AUTH_TOKEN>>

\* snapshot: the sample is taken, the block is left and the ProcInfo appended
SnapshotLeave(t) ==
    /\ last = NoLast /\ pc[t] = "snap"
    /\ \E cpu \in CpuChoices :
          LET p == NextJob(t) IN
          /\ out' = [out EXCEPT ![t] = Append(@, Snapshot(os, jobObj[p], p, cpu[p], now))]
          /\ jobObj' = [jobObj EXCEPT ![p] =
                          [SnapshotJob(os, jobObj[p], p, cpu[p], now) EXCEPT !.lock = {}]]
    /\ pc' = [pc EXCEPT ![t] = "in"]
    /\ UNCHANGED <<now, os, nextPid, JOBS, lock, req, last, ctlVars, AUTH_TOKEN>>

\* status: the loop is over, the block is left and `out' returned
StatusReturn(t) ==
    /\ last = NoLast /\ pc[t] = "in" /\ req[t].op = "status"
    /\ Len(out[t]) = Cardinality(DOMAIN JOBS)
    /\ lock' = lock \ {t}
    /\ pc' = [pc EXCEPT ![t] = "idle"]
    /\ req' = [req EXCEPT ![t] = NoReq]
    /\ out' = [out EXCEPT ![t] = <<>>]
    /\ last' = [t |-> t, req |-> req[t],
                resp |-> [NoResp EXCEPT !.code = 200, !.body = out[t]]]
    /\ UNCHANGED <<now, os, nextPid, jobObj, JOBS, ctlVars, AUTH_TOKEN>>

OrderRequests ==
    {r \in StartRequests : ~r.log_dir /\ ~r.kill_existing /\ r.job_id \in JobIds}
    \cup {r \in StopRequests : r.mode = "tree_kill" /\ r.job_id \in JobIds}
    \cup {StatusRequest}
    \cup {r \in StopAllRequests : r.mode = "tree_kill"}

\* the steps of thread t inside its `with JOBS_LOCK:' block
Inside(t) ==
    \/ StartCheck(t) \/ StartSpawn(t) \/ StopBody(t) \/ StopAllBody(t)
    \/ SnapshotEnter(t) \/ SnapshotLeave(t) \/ StatusReturn(t)
    \/ (t = Pruner /\ PruneBody)

OrderStep ==
    \/ Elapse(PRUNE_AGE + 1)
    \/ \E p \in Pids : ProcExit(p, 0)
    \/ \E t \in Handlers, r \in OrderRequests : Call(t, r)
    \/ Call(Pruner, PruneRequest)
    \/ \E t \in Threads : Acquire(t)
    \/ \E t \in Handlers : StartCheck(t)
    \/ \E t \in Handlers : StartSpawn(t)
    \/ \E t \in Handlers : StopBody(t)
    \/ \E t \in Handlers : StopAllBody(t)
    \/ \E t \in Handlers : SnapshotEnter(t)
    \/ \E t \in Handlers : SnapshotLeave(t)
    \/ \E t \in Handlers : StatusReturn(t)
    \/ PruneBody

OrderNext == OrderStep \/ Deliver

OrderFair ==
    /\ WF_vars(Deliver)
    /\ \A t \in Threads : SF_vars(Acquire(t)) /\ WF_vars(Inside(t))

OrderSpec == Init /\ [][OrderNext]_vars /\ OrderFair

(***************************************************************************)
(* LateSpec: one run of the controller as in CtlSpec, with the agent of    *)
(* Local serving the POST /start of the fan-out step by step: the request  *)
(* is received, waits for JOBS_LOCK and runs start_job, which with         *)
(* kill_existing first terminates the job an earlier run has left.         *)
(* requests.post gives up after DEFAULT_TIMEOUT seconds, so the controller *)
(* can take the call for failed at any of these steps; the agent does not  *)
(* learn of it and serves the request to its end.                          *)
(***************************************************************************)
\* an earlier run of the controller has started the job on the agent of Local
PriorJob ==
    /\ phase = "main" /\ JOBS = <<>>
    /\ StartNow("t1", {Payload})

\* the POST /start of the fan-out reaches the agent of Local
AgentReceive ==
    /\ phase = "fanout" /\ Local \in futures /\ Endpoint(command) = "start"
    /\ Call("t1", Payload)

\* an answer of the agent that no call of this run waits for
LateDeliver ==
    /\ last.req.op = "start"
    /\ phase = "main" \/ Local \notin futures
    /\ Deliver

LateStep ==
    \/ CtlStep
    \/ PriorJob
    \/ AgentReceive
    \/ Acquire("t1")
    \/ StartCheck("t1")
    \/ StartSpawn("t1")
    \/ LateDeliver

LateNext == LateStep

LateSpec == CtlStart /\ [][LateNext]_vars

(***************************************************************************)
(* FailSpec: two handler threads send /start requests, with and without    *)
(* logs, with an empty command or one that Popen may refuse, and run       *)
(* start_job holding JOBS_LOCK, as in RaceSpec.                            *)
(***************************************************************************)
FailRequests == {r \in StartRequests : r.job_id \in JobIds}

FailStep ==
    \/ \E p \in Pids : ProcExit(p, 0)
    \/ \E t \in Handlers, r \in FailRequests : Call(t, r)
    \/ \E t \in Handlers : Acquire(t)
    \/ \E t \in Handlers : StartCheck(t)
    \/ \E t \in Handlers : StartSpawn(t)

FailNext == FailStep \/ Deliver

FailSpec == Init /\ [][FailNext]_vars

(***************************************************************************)
(* Properties.  A request that has just completed is in `last`, with its   *)
(* response and what it did to the OS; the unprimed variables of the step  *)
(* that completes it are the state the handler found.                      *)
(***************************************************************************)

\* C1 (CtlSpec): a waiting mode (exec, start --wait) exits 0 if and only if
\* the results map is non-empty and every entry is exactly 0.
C1_ExitZeroIffNonEmptyAllZero ==
    phase = "done" =>
        ((exit_code = {0}) <=>
            (DOMAIN results # {} /\ \A n \in DOMAIN results : results[n] = {0}))

\* C2 (CtlSpec): exec with a selected client whose /start call failed exits
\* with code 1, whatever the other clients' jobs return.
C2_UnreachableClientExitsOne ==
    (phase = "done" /\ command = "exec" /\ \E n \in DOMAIN started : ~started[n])
        => exit_code = {1}

\* C3 (Spec): /start with a job_id that is in the table and kill_existing
\* false answers 409, spawns nothing, opens no log file, and leaves the table,
\* the existing _Job and the processes as they were.
C3_DuplicateStartRefused ==
    [][(/\ last' # NoLast
        /\ last'.req.op = "start"
        /\ ~last'.req.kill_existing
        /\ last'.req.job_id \in DOMAIN JOBS)
       => (/\ last'.resp.code = 409
           /\ last'.resp.spawned = {}
           /\ last'.resp.opened = 0
           /\ JOBS' = JOBS /\ jobObj' = jobObj /\ os' = os /\ nextPid' = nextPid)]_vars

\* C3: a duplicate /start is refused while the existing job's process has
\* already left the process table.
C3_RefusedForExitedJob ==
    /\ last.req.op = "start" /\ last.resp.code = 409
    /\ ~PidExists(os, JOBS[last.req.job_id])

\* C4 (Spec): /stop for a job_id that is in the table always answers 200
\* "sent", whatever the mode of the request and however the termination went.
C4_StopOfKnownJobAlwaysSent ==
    [][(/\ last' # NoLast
        /\ last'.req.op = "stop"
        /\ last'.req.job_id \in DOMAIN JOBS)
       => (last'.resp.code = 200 /\ last'.resp.status = "sent")]_vars

\* C5 (Spec): /stop for a job_id that is not in the table answers 404, sends
\* no signal, and leaves the table, the _Jobs' log handles and the processes
\* as they were.
C5_StopOfUnknownJobIs404 ==
    [][(/\ last' # NoLast
        /\ last'.req.op = "stop"
        /\ last'.req.job_id \notin DOMAIN JOBS)
       => (/\ last'.resp.code = 404
           /\ last'.resp.term = {} /\ last'.resp.kill = {}
           /\ JOBS' = JOBS /\ jobObj' = jobObj /\ os' = os)]_vars

\* C5: an unknown job_id is answered 404 while another job runs with its log
\* files open.
C5_UnknownBesideRunningJob ==
    /\ last.req.op = "stop" /\ last.resp.code = 404
    /\ \E j \in DOMAIN JOBS :
          jobObj[JOBS[j]].log_files = "open" /\ os[JOBS[j]].state = "running"

\* C6 (Spec): when /start with kill_existing replaces a job, the new _Job is
\* never registered while the old _Job's log handles are still open.
C6_OldLogsClosedBeforeInsert ==
    [][(/\ last' # NoLast
        /\ last'.req.op = "start"
        /\ last'.req.kill_existing
        /\ last'.req.job_id \in DOMAIN JOBS
        /\ last'.resp.code = 200)
       => jobObj'[JOBS[last'.req.job_id]].log_files # "open"]_vars

C9_HungFlagEverywhere ==
    last.req.op = "status" =>
        \A i \in 1..Len(last.resp.body) :
            last.resp.body[i].is_hung =
                (now - last.resp.body[i].last_cpu_active_ts >= HUNG_SECS)

\* C9 amended (TimeSpec): in every ProcInfo of /status for a job whose process
\* is in the process table, is_hung = (now - last_cpu_active_ts >= HUNG_SECS);
\* for a job whose process has vanished is_hung is true.
C9_HungFlagOfLiveProcess ==
    last.req.op = "status" =>
        \A i \in 1..Len(last.resp.body) :
            IF PidExists(os, last.resp.body[i].pid)
            THEN last.resp.body[i].is_hung =
                    (now - last.resp.body[i].last_cpu_active_ts >= HUNG_SECS)
            ELSE last.resp.body[i].is_hung

\* C9: a running job that was seen active after its start is reported hung.
C9_HungAfterActivity ==
    /\ last.req.op = "status"
    /\ \E i \in 1..Len(last.resp.body) :
          /\ last.resp.body[i].status = "running"
          /\ last.resp.body[i].is_hung
          /\ last.resp.body[i].last_cpu_active_ts > last.resp.body[i].start_ts

\* C10 (StatSpec): /status answers 200 with one ProcInfo per job of the table;
\* for a job whose process has vanished it is "exited" with the exit code when
\* the handle has one, "unknown" with a null returncode otherwise, with
\* cpu 0, memory 0 and is_hung true.
C10_VanishedProcessReported ==
    last.req.op = "status" =>
        /\ last.resp.code = 200
        /\ Len(last.resp.body) = Cardinality(DOMAIN JOBS)
        /\ \A j \in DOMAIN JOBS :
              \E i \in 1..Len(last.resp.body) :
                 LET e == last.resp.body[i]  p == JOBS[j] IN
                 /\ e.job_id = j /\ e.pid = p
                 /\ os[p].state = "running" => e.status = "running"
                 /\ os[p].state = "gone" =>
                       /\ e.status = "exited"
                       /\ e.returncode = os[p].rc /\ e.returncode # {}
                 /\ os[p].state = "lost" =>
                       e.status = "unknown" /\ e.returncode = {}
                 /\ os[p].state \in {"gone", "lost"} =>
                       e.cpu_percent = 0 /\ e.mem_mb = 0 /\ e.is_hung

\* C10: one /status reports a job whose process vanished unreaped beside a
\* job that runs.
C10_UnknownBesideRunning ==
    /\ last.req.op = "status"
    /\ \E i, k \in 1..Len(last.resp.body) :
          last.resp.body[i].status = "unknown" /\ last.resp.body[k].status = "running"

\* C11 (StatSpec): a /start answered 200 registers, under the job_id of the
\* response, a _Job with the pid of the response and the cmd of the request;
\* no step but a /start or the pruner changes an entry of the table or a
\* _Job's cmdline; and /status holds exactly one ProcInfo per entry, with the
\* entry's job_id and pid and the _Job's cmdline.  So a /status after a
\* /start, with no /start for the job_id and no pruning in between, holds
\* exactly one ProcInfo with the job_id and pid of the StartResponse and the
\* request's cmd.
C11_StartThenStatus ==
    [][/\ (last' # NoLast /\ last'.req.op = "start" /\ last'.resp.code = 200)
          => (/\ last'.resp.job_id \in DOMAIN JOBS'
              /\ JOBS'[last'.resp.job_id] = last'.resp.pid
              /\ jobObj'[last'.resp.pid].job_id = last'.resp.job_id
              /\ jobObj'[last'.resp.pid].cmdline = last'.req.cmd)
       /\ (last' = NoLast \/ last'.req.op \notin {"start", "prune"})
          => (\A j \in DOMAIN JOBS :
                 /\ j \in DOMAIN JOBS' /\ JOBS'[j] = JOBS[j]
                 /\ jobObj'[JOBS[j]].job_id = jobObj[JOBS[j]].job_id
                 /\ jobObj'[JOBS[j]].cmdline = jobObj[JOBS[j]].cmdline)
       /\ (last' # NoLast /\ last'.req.op = "status")
          => (\A j \in DOMAIN JOBS :
                 /\ Cardinality({i \in 1..Len(last'.resp.body) :
                                    last'.resp.body[i].job_id = j}) = 1
                 /\ \A i \in 1..Len(last'.resp.body) :
                       last'.resp.body[i].job_id = j =>
                          /\ last'.resp.body[i].pid = JOBS[j]
                          /\ last'.resp.body[i].cmdline = jobObj[JOBS[j]].cmdline
                          /\ jobObj[JOBS[j]].job_id = j)]_vars

\* C11: a /status reports, with its command, a job whose process has ended
\* since its /start.
C11_StatusAfterExit ==
    /\ last.req.op = "status"
    /\ \E i \in 1..Len(last.resp.body) :
          /\ last.resp.body[i].job_id = "a"
          /\ last.resp.body[i].status = "exited"
          /\ last.resp.body[i].cmdline = <<"exe", "arg">>

\* C12 (CtlSpec): a polling request that finds the target job_id with status
\* "exited" or "unknown" records the reported returncode, and records 0 when
\* the reported returncode is null.
C12_NullReturncodeRecordedAsZero ==
    [][(/\ phase = "poll" /\ calls' # calls
        /\ reply'.kind \in {"exited", "unknown"})
       => (/\ reply'.name \in DOMAIN results'
           /\ results'[reply'.name] =
                 IF reply'.returncode = {} THEN {0} ELSE reply'.returncode)]_vars

\* C13 (CtlSpec): when exec_and_wait has returned, every selected client has
\* an entry in the results map.
C13_EverySelectedClientHasAResult ==
    (command \in WaitCmds /\ phase \in {"results", "done"})
       => Names(clients) \subseteq DOMAIN results

\* C14 (CtlSpec): a polling request is only sent to a client without a
\* result; when its answer is 200 OK without the target job_id, the client
\* is recorded with 0 in that step; and a recorded result never changes, so
\* the client is not polled again.
C14_AbsentJobRecordedAsZero ==
    [][/\ \A n \in Names(Inventory) :
             calls'[n].status > calls[n].status => n \notin DOMAIN results
       /\ (phase = "poll" /\ calls' # calls /\ reply'.kind = "absent")
             => (/\ reply'.name \in DOMAIN results'
                 /\ results'[reply'.name] = {0})
       /\ \A n \in DOMAIN results :
             n \in DOMAIN results' /\ results'[n] = results[n]]_vars

\* C14: c2 has answered a poll with a list without the job and is recorded
\* with 0, and the loop has gone on to another pass for c1.
C14_AbsentThenNextPass ==
    /\ reply.name = "c2" /\ reply.kind = "absent"
    /\ "c2" \in DOMAIN results /\ results["c2"] = {0}
    /\ "c1" \notin DOMAIN results
    /\ phase = "poll" /\ idx = 1 /\ elapsed > 0

\* C15 (CtlSpec): a failed request to a client, in the fan-out or in a
\* polling pass, records no result for it and leaves the pass unfinished;
\* the loop goes on polling every client without a result until the
\* deadline, so a pass leaves out only clients that have a result; and after
\* the fan-out every selected client has been sent its request.
C15_FailedClientStillPolled ==
    [][/\ (phase = "fanout" /\ \E n \in Names(Inventory) :
              ReplyLine(n, FALSE) \in output' \ output)
          => results' = results
       /\ (phase = "poll" /\ calls' # calls
             /\ reply'.kind \in {"error", "http_error"})
          => (results' = results /\ all_done' = FALSE /\ idx' = idx + 1)
       /\ (phase = "poll" /\ idx > Len(clients) /\ ~all_done /\ phase' # phase)
          => ~InTime(elapsed', timeout)
       /\ (phase = "poll" /\ idx' = idx + 1 /\ calls' = calls)
          => clients[idx] \in DOMAIN results
       /\ (phase = "main" /\ phase' = "fanout")
          => \A n \in Names(clients) : calls'[n][Endpoint(command)] = 1]_vars

\* C16 (CtlSpec): a client whose job was started and has no result when the
\* polling loop is left is recorded as a timeout (null), the controller then
\* exits 1, no waiting command ever sends a /stop_all, and the controller's
\* steps after the loop change nothing at the agent: the _Job stays in the
\* table and its process is left alone.
C16_TimeoutLeavesJobRunning ==
    [][/\ (phase = "after" /\ phase' # phase)
          => (/\ \A n \in TimedOut(started, results) :
                    n \in DOMAIN results' /\ results'[n] = {}
              /\ (Local \in TimedOut(started, results)
                     => Payload.job_id \in DOMAIN JOBS')
              /\ UNCHANGED <<agentVars, calls>>)
       /\ (phase = "results" /\ phase' # phase)
          => (/\ (\E n \in DOMAIN results : results[n] = {}) => exit_code' = {1}
              /\ UNCHANGED <<agentVars, calls>>)
       /\ (command \in WaitCmds)
          => \A n \in Names(Inventory) : calls'[n].stop_all = 0]_vars

\* C16: the controller has exited 1 after the deadline while the job it
\* started at c1, last seen running, is still in the table with its process
\* running.
C16_ExitedWhileJobRuns ==
    /\ phase = "done" /\ exit_code = {1}
    /\ reply.name = Local /\ reply.kind = "running"
    /\ Local \in DOMAIN results /\ results[Local] = {}
    /\ Payload.job_id \in DOMAIN JOBS
    /\ os[JOBS[Payload.job_id]].state = "running"

\* C19 (CtlSpec): a non-waiting start, or a stop, in which the HTTP call to
\* some selected client has failed ends with exit code 1.
C19_FailedCallExitsOne ==
    (/\ phase = "done" /\ command \in {"start", "stop"}
     /\ \E n \in Names(clients) : ReplyLine(n, FALSE) \in output)
       => exit_code = {1}

\* C20 (CtlSpec): when the --clients filter matches no inventory entry, the
\* subcommand prints the warning, sends no request and completes without
\* raising.
C20_EmptySelectionCompletes ==
    (FilterWarning(Inventory, {{"cx"}}) \subseteq output /\ phase # "main")
       => (/\ phase = "done"
           /\ \A n \in Names(Inventory) : calls[n] = NoCalls)

\* C17 (FailSpec): a /start with an empty cmd never spawns or registers
\* anything; and a /start whose logs were opened (or not asked for) and
\* which is answered 500, that is, whose spawn failed, has closed every log
\* handle it opened, has spawned nothing, leaves no _Job under its job_id or
\* any new job_id, and leaves JOBS_LOCK free and its thread idle.
C17_SpawnFailureReleasesAll ==
    [][(last = NoLast /\ last' # NoLast /\ last'.req.op = "start")
       => /\ (last'.req.cmd = <<>>)
             => (last'.resp.code \in {409, 500} /\ last'.resp.spawned = {}
                 /\ nextPid' = nextPid)
          /\ (/\ last'.resp.code = 500
              /\ last'.resp.opened = IF last'.req.log_dir THEN 2 ELSE 0)
             => (/\ last'.resp.closedTmp = last'.resp.opened
                 /\ last'.resp.spawned = {}
                 /\ nextPid' = nextPid
                 /\ last'.req.job_id \notin DOMAIN JOBS'
                 /\ DOMAIN JOBS' \subseteq DOMAIN JOBS
                 /\ lock' = {}
                 /\ pc'[last'.t] = "idle")]_vars

\* C17: a /start with an empty cmd and logs has been answered 500 with both
\* handles closed while the other handler thread waits for the lock, which
\* is free.
C17_FailedWhileOtherWaits ==
    /\ last.req.op = "start" /\ last.req.cmd = <<>> /\ last.resp.code = 500
    /\ last.resp.opened = 2 /\ last.resp.closedTmp = 2
    /\ last.t = "t1" /\ pc["t2"] = "wait" /\ lock = {}

\* C18 (AuthSpec): when the configured token is not the placeholder, a
\* request to /start, /stop, /status or /stop_all whose Authorization header
\* is absent or does not begin with "Bearer " is answered 401, and one
\* whose bearer token is not the configured token is answered 403; either
\* way the job table, the _Job objects, the process table and the pid
\* counter are unchanged and nothing was spawned or signalled.  /health is
\* answered 200 whatever the header, and changes nothing.
C18_GateRejectsWithoutEffect ==
    [][(last = NoLast /\ last' # NoLast)
       => LET r == last'.req
              a == last'.resp
              untouched ==
                  /\ UNCHANGED <<now, os, nextPid, jobObj, JOBS, AUTH_TOKEN>>
                  /\ a.spawned = {} /\ a.term = {} /\ a.kill = {}
                  /\ a.killret = <<>>
          IN
          /\ (/\ r.op \in {"start", "stop", "status", "stop_all"}
              /\ AUTH_TOKEN # "change-me"
              /\ \A h \in r.authorization : h.scheme # "Bearer")
             => (a.code = 401 /\ untouched)
          /\ (/\ r.op \in {"start", "stop", "status", "stop_all"}
              /\ AUTH_TOKEN # "change-me"
              /\ \E h \in r.authorization :
                    h.scheme = "Bearer" /\ Strip(h.rest) # AUTH_TOKEN)
             => (a.code = 403 /\ untouched)
          /\ (r.op = "health")
             => (a.code = 200 /\ untouched)]_vars

\* C18: a /stop with a wrong bearer token has been refused with 403 while
\* job a, started with the right token, is running.
C18_StopRefusedForRunningJob ==
    /\ AUTH_TOKEN = "secret"
    /\ last.req.op = "stop" /\ last.resp.code = 403
    /\ last.req.authorization = {[scheme |-> "Bearer", rest |-> "wrong"]}
    /\ "a" \in DOMAIN JOBS /\ os[JOBS["a"]].state = "running"

\* C21 (Spec): a /stop of a job whose process exists, in mode term, kill
\* or tree_kill, sends the soft terminate to every process of the process
\* set; the hard kill goes only to processes that got the soft terminate,
\* were running and have not ended in the soft wait, and only in mode kill
\* or tree_kill: every process of the set that got no hard kill has ended,
\* and in mode term no process gets a hard kill.
C21_SoftFirstHardOnSurvivors ==
    [][(/\ last = NoLast /\ last' # NoLast /\ last'.req.op = "stop"
        /\ last'.req.mode \in Modes
        /\ last'.req.job_id \in DOMAIN JOBS
        /\ PidExists(os, JOBS[last'.req.job_id]))
       => LET p == JOBS[last'.req.job_id]
              a == last'.resp
              set == ProcessSet(os, p, jobObj[p].start_ts)
          IN  /\ a.term = set
              /\ a.kill \subseteq a.term
              /\ \A q \in a.kill : os[q].state = "running"
              /\ last'.req.mode = "term" => a.kill = {}
              /\ last'.req.mode \in {"kill", "tree_kill"}
                    => \A q \in a.term \ a.kill : os'[q].state # "running"]_vars

\* C21: a /stop in mode kill has ended one process of the set with the soft
\* terminate and has sent the hard kill to another, which survived it.
C21_OneSoftOneHard ==
    /\ last.req.op = "stop" /\ last.req.mode = "kill"
    /\ last.resp.kill # {}
    /\ last.resp.term \ last.resp.kill # {}
    /\ \E q \in last.resp.term \ last.resp.kill : os[q].state = "gone"

\* C22 (Spec): the log handles of a _Job started with log_dir are open while
\* the _Job is in the table and has not been terminated; a termination after
\* which the child is gone has closed them; handles that were closed stay
\* closed; and no _Job leaves the table with its handles open.
C22_LogsClosedExactlyOnce ==
    [][/\ \A j \in DOMAIN JOBS' \ DOMAIN JOBS :
             jobObj'[JOBS'[j]].log_paths => jobObj'[JOBS'[j]].log_files = "open"
       /\ \A p \in Pids :
             /\ (jobObj[p].log_files = "closed") => (jobObj'[p].log_files = "closed")
             /\ (/\ jobObj[p].log_files = "open"
                 /\ last' # NoLast /\ last'.resp.killret # <<>>
                 /\ PidExists(os, p) /\ ~PidExists(os', p))
                => jobObj'[p].log_files = "closed"
       /\ \A j \in DOMAIN JOBS :
             (j \notin DOMAIN JOBS' \/ JOBS'[j] # JOBS[j])
                => jobObj'[JOBS[j]].log_files # "open"]_vars

\* C23 (TimeSpec): in every reachable state every _Job has
\* start_ts <= last_cpu_active_ts <= now, and no step lowers the
\* last_cpu_active_ts of a _Job.
C23_ActiveTimeBounded ==
    /\ [](\A p \in Pids :
             jobObj[p] # NoJob =>
                /\ jobObj[p].start_ts <= jobObj[p].last_cpu_active_ts
                /\ jobObj[p].last_cpu_active_ts <= now)
    /\ [][\A p \in Pids :
             jobObj[p] # NoJob =>
                /\ jobObj'[p] # NoJob
                /\ jobObj'[p].start_ts = jobObj[p].start_ts
                /\ jobObj'[p].last_cpu_active_ts >= jobObj[p].last_cpu_active_ts]_vars

\* C23: a job that a /status found active some time after its start, and
\* idle in a later /status
C23_ActiveThenIdle ==
    /\ last.req.op = "status"
    /\ \E i \in 1..Len(last.resp.body) :
          LET e == last.resp.body[i] IN
          /\ e.cpu_percent <= HUNG_CPU_PCT /\ e.status = "running"
          /\ e.start_ts < e.last_cpu_active_ts
          /\ e.last_cpu_active_ts < now
          /\ jobObj[e.pid].last_cpu_active_ts = e.last_cpu_active_ts

\* C30 (TimeSpec): in a /status, for every job whose process exists: a
\* sample above HUNG_CPU_PCT sets last_cpu_active_ts to the instant of the
\* sample and gives is_hung = false; a sample at or below it leaves
\* last_cpu_active_ts as it was; and is_hung is true exactly when the last
\* sample above the threshold (or, without one, the start) lies HUNG_SECS or
\* more in the past, which needs a job at least HUNG_SECS old.
C30_ActiveSampleResetsWindow ==
    [][(last = NoLast /\ last' # NoLast /\ last'.req.op = "status")
       => \A i \in 1..Len(last'.resp.body) :
             LET e == last'.resp.body[i]
                 j == jobObj[e.pid]
                 k == jobObj'[e.pid]
             IN  PidExists(os, e.pid) =>
                   /\ (e.cpu_percent > HUNG_CPU_PCT)
                         => (k.last_cpu_active_ts = now /\ ~e.is_hung)
                   /\ (e.cpu_percent <= HUNG_CPU_PCT)
                         => (k.last_cpu_active_ts = j.last_cpu_active_ts)
                   /\ e.last_cpu_active_ts = k.last_cpu_active_ts
                   /\ e.is_hung <=> (now - k.last_cpu_active_ts >= HUNG_SECS)
                   /\ e.is_hung => (now - j.start_ts >= HUNG_SECS)]_vars

\* C30: a job at least HUNG_SECS old is sampled above the threshold and is
\* reported not hung, with the instant of the sample as its last activity.
C30_ActiveAfterLongIdle ==
    /\ last.req.op = "status"
    /\ \E i \in 1..Len(last.resp.body) :
          LET e == last.resp.body[i] IN
          /\ e.cpu_percent > HUNG_CPU_PCT /\ ~e.is_hung
          /\ e.last_cpu_active_ts = now
          /\ now - e.start_ts >= HUNG_SECS

\* C27 (TimeSpec): a pass of the pruner removes a job only when popen.poll()
\* of its child gives an exit code and its start_ts lies more than PRUNE_AGE
\* in the past, and the log handles of a job it removes are not open
\* afterwards; a job whose child is running, or that is not older than
\* PRUNE_AGE, stays in the table with its _Job unchanged.
C27_PrunesOnlyOldExitedJobs ==
    [][(last = NoLast /\ last' # NoLast /\ last'.req.op = "prune")
       => \A j \in DOMAIN JOBS :
             LET p == JOBS[j] IN
             /\ (j \notin DOMAIN JOBS')
                   => (/\ Poll(os, p) # {}
                       /\ os[p].state # "running"
                       /\ now - jobObj[p].start_ts > PRUNE_AGE
                       /\ jobObj'[p].log_files # "open")
             /\ (os[p].state = "running" \/ now - jobObj[p].start_ts <= PRUNE_AGE)
                   => (/\ j \in DOMAIN JOBS' /\ JOBS'[j] = p
                       /\ jobObj'[p] = jobObj[p])]_vars

\* C27: a pass of the pruner has removed an old exited job that had logs,
\* and has closed them.
C27_PrunedWithLogs ==
    /\ last.req.op = "prune"
    /\ JOBS = <<>>
    /\ \E p \in Pids :
          /\ jobObj[p].log_paths /\ jobObj[p].log_files = "closed"
          /\ now - jobObj[p].start_ts > PRUNE_AGE

\* C24 (LockSpec): the step in which /status samples the jobs of a table
\* that is not empty is taken while no thread holds the job-table mutex, so
\* that a thread waiting for the mutex is not kept waiting by the sampling.
C24_SamplingOutsideTableLock ==
    [][(last = NoLast /\ last' # NoLast /\ last'.req.op = "status"
          /\ last'.resp.body # <<>>)
       => lock = {}]_vars

\* C25 (LockSpec): the step in which /stop_all terminates the processes of
\* the jobs is taken while no thread holds the job-table mutex, so that
\* another endpoint can take the mutex during the termination wait.
C25_TerminationOutsideTableLock ==
    [][(last = NoLast /\ last' # NoLast /\ last'.req.op = "stop_all"
          /\ last'.resp.term # {})
       => lock = {}]_vars

\* C26 (FailSpec): when a /start with a log_dir ends without both log files
\* open, the handler has closed every handle it had opened, the response is
\* 500, no process was spawned and the table holds no job it did not hold
\* before.
C26_OpenFailureReleasesHandles ==
    [][(last = NoLast /\ last' # NoLast /\ last'.req.op = "start"
          /\ last'.req.log_dir /\ last'.resp.code # 409 /\ last'.resp.opened < 2)
       => /\ last'.resp.closedTmp = last'.resp.opened
          /\ last'.resp.code = 500
          /\ last'.resp.spawned = {}
          /\ nextPid' = nextPid
          /\ DOMAIN JOBS' \subseteq DOMAIN JOBS]_vars

\* C28 (Spec): for a /stop of a job whose process exists, in mode term, kill
\* or tree_kill, _kill_job returns false exactly when a process of the
\* process set is still running after the escalation of the mode, and true
\* exactly when none is; a set whose direct child has ended and whose
\* descendant or sibling still runs gives false.
C28_TrueOnlyWhenNoneSurvives ==
    [][(/\ last = NoLast /\ last' # NoLast /\ last'.req.op = "stop"
        /\ last'.req.mode \in Modes
        /\ last'.req.job_id \in DOMAIN JOBS
        /\ PidExists(os, JOBS[last'.req.job_id]))
       => LET p == JOBS[last'.req.job_id]
              set == ProcessSet(os, p, jobObj[p].start_ts)
              survivors == {q \in set : os'[q].state = "running"}
          IN  /\ last'.resp.killret \in {<<"true">>, <<"false">>}
              /\ last'.resp.killret = <<"false">> <=> survivors # {}]_vars

\* C29 (KillSpec): the processes a tree_kill /stop of a job whose process
\* exists sends its soft terminate to are exactly the direct child, its
\* descendants through the parent-pid relation, and every process of the
\* process table with a simulator name created between SIB_BEFORE before and
\* SIB_AFTER after the job's start_ts, whatever other processes the table
\* holds.
C29_ProcessSetIsComplete ==
    [][(/\ last = NoLast /\ last' # NoLast /\ last'.req.op = "stop"
        /\ last'.req.job_id \in DOMAIN JOBS
        /\ PidExists(os, JOBS[last'.req.job_id]))
       => LET p == JOBS[last'.req.job_id]
              start_ts == jobObj[p].start_ts
              related == {q \in Pids : /\ PidExists(os, q)
                                       /\ os[q].name = "carla"
                                       /\ os[q].ctime >= start_ts - SIB_BEFORE
                                       /\ os[q].ctime <= start_ts + SIB_AFTER}
          IN  last'.resp.term = Descendants(os, {p}) \cup related]_vars

\* C32 (TableSpec): /stop and /stop_all leave the job table as it was; a
\* /status lists every job of the table, stopped or not; a /start without
\* kill_existing for a job_id of the table is answered 409 and leaves the
\* table as it was; and an entry of the table goes or changes its _Job only
\* in a pass of the pruner or in a /start with kill_existing for its job_id.
C32_StopKeepsTheEntry ==
    [][/\ (last = NoLast /\ last' # NoLast /\ last'.req.op \in {"stop", "stop_all"})
             => JOBS' = JOBS
       /\ (last = NoLast /\ last' # NoLast /\ last'.req.op = "status")
             => /\ Len(last'.resp.body) = Cardinality(DOMAIN JOBS)
                /\ {last'.resp.body[i].job_id : i \in 1..Len(last'.resp.body)}
                      = DOMAIN JOBS
       /\ (/\ last = NoLast /\ last' # NoLast /\ last'.req.op = "start"
           /\ ~last'.req.kill_existing /\ last'.req.job_id \in DOMAIN JOBS)
             => last'.resp.code = 409 /\ JOBS' = JOBS
       /\ \A j \in DOMAIN JOBS :
             (j \notin DOMAIN JOBS' \/ JOBS'[j] # JOBS[j])
                => \/ last'.req.op = "prune"
                   \/ /\ last'.req.op = "start" /\ last'.req.kill_existing
                      /\ last'.req.job_id = j]_vars

\* C32: a /start without kill_existing is answered 409 for a job whose
\* process a /stop or /stop_all has ended.
C32_RefusedAfterStop ==
    /\ last.req.op = "start" /\ ~last.req.kill_existing
    /\ last.resp.code = 409
    /\ last.req.job_id \in DOMAIN JOBS
    /\ os[JOBS[last.req.job_id]].state = "gone"
    /\ os[JOBS[last.req.job_id]].rc = {1}

\* C33 (Spec): every process the agent has spawned as the child of a job and
\* that is still running is the pid of an entry of the job table.
C33_LiveChildIsTracked ==
    \A p \in Pids :
       (jobObj[p] # NoJob /\ os[p].state = "running") => p \in TablePids(JOBS)

\* C34 (Spec): a /start answered 409 or 500 leaves the job table and the
\* _Job objects as they were before the request and has signalled no
\* process: the process table is as it was.
C34_FailedStartChangesNothing ==
    [][(/\ last = NoLast /\ last' # NoLast /\ last'.req.op = "start"
        /\ last'.resp.code \in {409, 500})
       => /\ JOBS' = JOBS
          /\ jobObj' = jobObj
          /\ os' = os
          /\ last'.resp.term = {} /\ last'.resp.kill = {}]_vars

C35_FailedStartStartsNoJob ==
    [][/\ (/\ Local \notin DOMAIN started
           /\ Local \in DOMAIN started' /\ ~started'[Local])
             => last.resp.spawned = {}
       /\ (/\ Local \in DOMAIN started /\ ~started[Local]
           /\ last = NoLast /\ last' # NoLast /\ last'.req.op = "start")
             => last'.resp.spawned = {}]_vars

=============================================================================
